---- MODULE Spec2Model ----
(***************************************************************************)
(* Order references, serial-number extraction and the sales-order         *)
(* allocation ledger of InvenTree (order/models.py, InvenTree/helpers.py). *)
(*                                                                         *)
(* A Python string is a sequence of one-character strings.                 *)
(***************************************************************************)
EXTENDS Integers, Sequences, FiniteSets, TLC

VARIABLES
    inc_in,     \* the argument n of the first call of increment
    inc_out,    \* the value after the calls made so far
    inc_calls,  \* the number of calls of increment made so far
    orders,     \* per order type, the rows of its table: [pk, reference]
    next_pk,    \* per order type, the primary key of the next row inserted
    requests,   \* per client, the request it has validated and not yet saved
    sn_serials, \* extract_serial_numbers: the argument serials
    sn_quantity,\* the argument expected_quantity
    sn_next,    \* the argument next_number
    sn_pc,      \* where the call is: "call", "groups" or "done"
    sn_groups,  \* the local groups
    sn_done,    \* the number of groups gone through
    sn_numbers, \* the local numbers
    sn_errors,  \* the local errors
    sn_result,  \* how the call ended, and the errors it raised
    stock,      \* the StockItem rows, by primary key: part, quantity, serial, customer
    shipped,    \* per SalesOrderLineItem, its field shipped
    allocations,\* the SalesOrderAllocation rows, in the order of their primary keys
    shipment_date, \* per SalesOrderShipment, whether shipment_date is set
    so_status,  \* per SalesOrder, its field status
    last,       \* how the last operation on the ledger ended: the operation
                \* that failed, or Done
    po_status,  \* the field status of the PurchaseOrder
    po_received,\* per PurchaseOrderLineItem, its field received
    po_stock,   \* the StockItem rows created for the purchase order, in order
    po_last,    \* the last call on the purchase order and how it ended
    inflight,   \* per client, the allocation it has validated and not yet saved
    completing  \* per client, how far its call of complete_shipment has come

incVars == <<inc_in, inc_out, inc_calls>>
refVars == <<orders, next_pk, requests>>

snVars == <<sn_serials, sn_quantity, sn_next, sn_pc, sn_groups, sn_done,
            sn_numbers, sn_errors, sn_result>>

ledgerVars == <<stock, shipped, allocations, shipment_date, so_status, last>>

poVars == <<po_status, po_received, po_stock, po_last>>

vars == <<incVars, refVars, snVars, ledgerVars, poVars, inflight, completing>>

\* the variables each part of the model leaves alone
notInc == <<refVars, snVars, ledgerVars, poVars, inflight, completing>>
notRef == <<incVars, snVars, ledgerVars, poVars, inflight, completing>>
notSn == <<incVars, refVars, ledgerVars, poVars, inflight, completing>>
notLedger == <<incVars, refVars, snVars, poVars, inflight, completing>>
notPo == <<incVars, refVars, snVars, ledgerVars, inflight, completing>>
notRequests == <<incVars, refVars, snVars, poVars, completing>>
notShipments == <<incVars, refVars, snVars, poVars, inflight>>

----------------------------------------------------------------------------
(* Strings *)

Digits == {"0", "1", "2", "3", "4", "5", "6", "7", "8", "9"}

\* str.strip() and the regex class \s: the characters Python counts as whitespace
Whitespace == {" ", "\n"}

DigitVal(c) ==
    CASE c = "0" -> 0 [] c = "1" -> 1 [] c = "2" -> 2 [] c = "3" -> 3
      [] c = "4" -> 4 [] c = "5" -> 5 [] c = "6" -> 6 [] c = "7" -> 7
      [] c = "8" -> 8 [] c = "9" -> 9

DigitChar(d) ==
    CASE d = 0 -> "0" [] d = 1 -> "1" [] d = 2 -> "2" [] d = 3 -> "3"
      [] d = 4 -> "4" [] d = 5 -> "5" [] d = 6 -> "6" [] d = 7 -> "7"
      [] d = 8 -> "8" [] d = 9 -> "9"

\* the strings over alphabet of length at most n
StringsUpTo(alphabet, n) == UNION {[1..k -> alphabet] : k \in 0..n}

AllDigits(s) == \A i \in 1..Len(s) : s[i] \in Digits

\* int(s) of a non-empty string of decimal digits
RECURSIVE DigitsToNat(_)
DigitsToNat(s) ==
    IF s = <<>> THEN 0
    ELSE 10 * DigitsToNat(SubSeq(s, 1, Len(s) - 1)) + DigitVal(s[Len(s)])

\* str(n) of an integer n >= 0
RECURSIVE NatToDigits(_)
NatToDigits(n) ==
    IF n < 10 THEN <<DigitChar(n)>>
    ELSE Append(NatToDigits(n \div 10), DigitChar(n % 10))

\* str(n) of any integer
IntToStr(n) == IF n < 0 THEN <<"-">> \o NatToDigits(-n) ELSE NatToDigits(n)

\* str.zfill(width) of a string with no sign
RECURSIVE zfill(_, _)
zfill(s, width) == IF Len(s) >= width THEN s ELSE zfill(<<"0">> \o s, width)

\* str.strip()
RECURSIVE lstrip(_)
lstrip(s) == IF s # <<>> /\ s[1] \in Whitespace THEN lstrip(Tail(s)) ELSE s

RECURSIVE rstrip(_)
rstrip(s) ==
    IF s # <<>> /\ s[Len(s)] \in Whitespace
    THEN rstrip(SubSeq(s, 1, Len(s) - 1)) ELSE s

strip(s) == rstrip(lstrip(s))

----------------------------------------------------------------------------
(* InvenTree.helpers.increment *)

\* re.search(r"(.*?)(\d+)?$", value): the match starts at the first position
\* from which no line break follows ('.' matches no line break), the lazy
\* prefix ends at the first position from which only digits follow.
MatchStart(value) ==
    LET breaks == {i \in 1..Len(value) : value[i] = "\n"}
    IN  IF breaks = {} THEN 1
        ELSE (CHOOSE i \in breaks : \A j \in breaks : j <= i) + 1

NumberStart(value) ==
    LET ok == {p \in MatchStart(value)..(Len(value) + 1) :
                   \A i \in p..Len(value) : value[i] \in Digits}
    IN  CHOOSE p \in ok : \A q \in ok : p <= q

RegexPrefix(value) == SubSeq(value, MatchStart(value), NumberStart(value) - 1)

RegexNumber(value) == SubSeq(value, NumberStart(value), Len(value))

\* increment without the zfill of the new number
IncrementNoPad(n) ==
    LET value == strip(n)
        number == RegexNumber(value)
    IN  IF value = <<>> THEN value
        ELSE IF number = <<>> THEN RegexPrefix(value)
        ELSE RegexPrefix(value) \o NatToDigits(DigitsToNat(number) + 1)

\* increment taking a missing number for 0
IncrementNoNumber(n) ==
    LET value == strip(n)
        number == RegexNumber(value)
    IN  IF value = <<>> THEN value
        ELSE RegexPrefix(value)
                 \o zfill(NatToDigits(DigitsToNat(number) + 1), Len(number))

increment(n) ==
    LET value == strip(n)
        prefix == RegexPrefix(value)
        number == RegexNumber(value)
        width == Len(number)
    IN  IF value = <<>> THEN value
        ELSE IF number = <<>> THEN prefix
        ELSE prefix \o zfill(NatToDigits(DigitsToNat(number) + 1), width)

----------------------------------------------------------------------------
(* Calls of increment on bounded references *)

MaxRefLen == 4
MaxCalls == 2

RefAlphabet == {"0", "1", "9", "A", " ", "\n"}

IncInit ==
    /\ inc_in \in StringsUpTo(RefAlphabet, MaxRefLen)
    /\ inc_out = inc_in
    /\ inc_calls = 0

IncIdle == inc_in = <<>> /\ inc_out = <<>> /\ inc_calls = 0

CallIncrement ==
    /\ inc_calls < MaxCalls
    /\ inc_out' = increment(inc_out)
    /\ inc_calls' = inc_calls + 1
    /\ UNCHANGED inc_in
    /\ UNCHANGED notInc

\* the longest run of decimal digits at the end of s, and what precedes it
RECURSIVE TrailingDigits(_)
TrailingDigits(s) ==
    IF s # <<>> /\ s[Len(s)] \in Digits
    THEN Append(TrailingDigits(SubSeq(s, 1, Len(s) - 1)), s[Len(s)])
    ELSE <<>>

BeforeDigits(s) == SubSeq(s, 1, Len(s) - Len(TrailingDigits(s)))

\* prefix, then value + 1 in decimal, zero-padded to at least the old width
Successor(s) ==
    LET run == TrailingDigits(s)
        next == NatToDigits(DigitsToNat(run) + 1)
    IN  BeforeDigits(s) \o
            (IF Len(next) >= Len(run) THEN next
             ELSE [i \in 1..(Len(run) - Len(next)) |-> "0"] \o next)

\* no whitespace at either end and no line break inside
PlainReference(s) ==
    /\ s # <<>> => s[1] \notin Whitespace /\ s[Len(s)] \notin Whitespace
    /\ \A i \in 1..Len(s) : s[i] # "\n"

\* C5 as stated: every reference ending in a run of digits is mapped to its
\* prefix followed by the run's value plus one, padded to at least the run's width.
C5_AnyReference ==
    (inc_calls = 1 /\ TrailingDigits(inc_in) # <<>>) => inc_out = Successor(inc_in)

\* C5 (amended): a reference that has no whitespace at its ends and no line
\* break inside, and ends in a run of w >= 1 digits, is mapped to the same
\* prefix followed by the decimal rendering of the run's value plus one,
\* zero-padded to at least w characters and never truncated; the run is the
\* longest run of digits at the end.
C5_IncrementSuccessor ==
    (inc_calls = 1 /\ PlainReference(inc_in) /\ TrailingDigits(inc_in) # <<>>)
        => inc_out = Successor(inc_in)

C5_Witness ==
    /\ inc_calls = 1
    /\ inc_in = <<"A", "0", "9", "9">>
    /\ inc_out = <<"A", "1", "0", "0">>

\* C6 as stated: a reference that does not end in a decimal digit is returned
\* unchanged, however often increment is applied.
C6_AnyReference ==
    (inc_calls >= 1 /\ TrailingDigits(inc_in) = <<>>) => inc_out = inc_in

\* C6 (amended): a reference that has no whitespace at its ends and no line
\* break inside, and does not end in a decimal digit, is returned unchanged,
\* however often increment is applied.
C6_IncrementFixpoint ==
    (inc_calls >= 1 /\ PlainReference(inc_in) /\ TrailingDigits(inc_in) = <<>>)
        => inc_out = inc_in

C6_Witness ==
    /\ inc_calls = 2
    /\ inc_in = <<"1", "A", "A">>
    /\ inc_out = inc_in

----------------------------------------------------------------------------
(* Purchase-order and sales-order references *)

MaxOrders == 3      \* orders ever created, both types together

OrderTypes == {"po", "so"}
\* two requests in flight at once
Clients == {"c1", "c2"}

\* the references a client may send
RefPool == {<<"A">>, <<"1">>, <<"2">>}

NoRequest == [kind |-> "none", type |-> "po", pk |-> 0, reference |-> <<>>]

References(rows) == {r.reference : r \in rows}

\* QuerySet.last(): the row with the greatest primary key
LastRow(rows) == CHOOSE r \in rows : \A q \in rows : q.pk <= r.pk

\* the evaluation of the loop is cut after this many iterations, more than
\* any table of the model needs
MaxIterations == MaxOrders + 1

\* how a run of the loop ended: the reference it returns, the references
\* attempted, the iterations made, whether it left through the escape
LoopEnd(reference, attempts, iterations, escaped, ended) ==
    [reference |-> reference, attempts |-> attempts, iterations |-> iterations,
     escaped |-> escaped, ended |-> ended]

\* the loop without its test of the attempted references
RECURSIVE NextNumberRunNoEscape(_, _, _, _)
NextNumberRunNoEscape(reference, attempts, rows, iterations) ==
    LET next == increment(reference)
    IN  IF iterations >= MaxIterations
        THEN LoopEnd(reference, attempts, iterations, FALSE, FALSE)
        ELSE IF next \in References(rows)
             THEN NextNumberRunNoEscape(next, attempts \cup {next}, rows,
                                        iterations + 1)
             ELSE LoopEnd(next, attempts, iterations + 1, FALSE, TRUE)

\* the while loop of get_next_po_number / get_next_so_number, iteration by
\* iteration
RECURSIVE NextNumberRun(_, _, _, _)
NextNumberRun(reference, attempts, rows, iterations) ==
    LET next == increment(reference)
    IN  IF iterations >= MaxIterations
        THEN LoopEnd(reference, attempts, iterations, FALSE, FALSE)
        ELSE IF next \in attempts
             THEN LoopEnd(next, attempts, iterations + 1, TRUE, TRUE)
             ELSE IF next \in References(rows)
                  THEN NextNumberRun(next, attempts \cup {next}, rows,
                                     iterations + 1)
                  ELSE LoopEnd(next, attempts, iterations + 1, FALSE, TRUE)

NextNumberLoop(reference, attempts, rows) ==
    NextNumberRun(reference, attempts, rows, 0).reference

get_next_number(rows) ==
    IF Cardinality(rows) = 0 THEN <<"0", "0", "0", "1">>
    ELSE LET order == LastRow(rows)
         IN  NextNumberLoop(order.reference, {order.reference}, rows)

get_next_po_number == get_next_number(orders["po"])

get_next_so_number == get_next_number(orders["so"])

\* unique=True on the reference column, checked by the database on every
\* insert and update: no other row of the table holds the reference
UniqueAlways(rows, pk, reference) == TRUE

UniqueReference(rows, pk, reference) ==
    \A r \in rows : r.pk # pk => r.reference # reference

RefInit ==
    /\ orders = [t \in OrderTypes |-> {}]
    /\ next_pk = [t \in OrderTypes |-> 1]
    /\ requests = [c \in Clients |-> NoRequest]

RefIdle ==
    /\ orders = [t \in OrderTypes |-> {}]
    /\ next_pk = [t \in OrderTypes |-> 1]
    /\ requests = [c \in Clients |-> NoRequest]

\* serializer.is_valid() of a create or an edit: the serializer's uniqueness
\* validator reads the table
Validate(c, kind, t, pk, reference) ==
    /\ requests[c] = NoRequest
    /\ requests' = [requests EXCEPT ![c] =
           IF UniqueReference(orders[t], pk, reference)
           THEN [kind |-> kind, type |-> t, pk |-> pk, reference |-> reference]
           ELSE NoRequest]
    /\ UNCHANGED <<orders, next_pk>>
    /\ UNCHANGED notRef

\* the orders created so far and the creations in flight
Created ==
    (next_pk["po"] - 1) + (next_pk["so"] - 1)
        + Cardinality({c \in Clients : requests[c].kind = "create"})

\* POST to the list endpoint with a reference
ValidateCreate(c) ==
    \E t \in OrderTypes, reference \in RefPool :
        /\ Created < MaxOrders
        /\ Validate(c, "create", t, 0, reference)

\* POST to the list endpoint without a reference: the field's default
ValidateCreateDefault(c) ==
    \E t \in OrderTypes :
        /\ Created < MaxOrders
        /\ Validate(c, "create", t, 0,
                    IF t = "po" THEN get_next_po_number ELSE get_next_so_number)

\* PATCH of the reference of an existing order
ValidateEdit(c) ==
    \E t \in OrderTypes, reference \in RefPool :
        \E r \in orders[t] : Validate(c, "edit", t, r.pk, reference)

\* serializer.save(): the insert, or the update of the row (Django inserts the
\* row when the update finds none); the database refuses a reference in use
Save(c) ==
    LET q == requests[c]
        t == q.type
        pk == IF q.kind = "create" THEN next_pk[t] ELSE q.pk
        kept == {r \in orders[t] : r.pk # pk}
    IN  /\ q # NoRequest
        /\ requests' = [requests EXCEPT ![c] = NoRequest]
        /\ IF UniqueReference(orders[t], pk, q.reference)
           THEN /\ orders' = [orders EXCEPT ![t] =
                       kept \cup {[pk |-> pk, reference |-> q.reference]}]
                /\ next_pk' = IF q.kind = "create"
                              THEN [next_pk EXCEPT ![t] = @ + 1] ELSE next_pk
           ELSE UNCHANGED <<orders, next_pk>>
        /\ UNCHANGED notRef

\* DELETE of an order
Delete ==
    \E t \in OrderTypes :
        \E r \in orders[t] :
            /\ orders' = [orders EXCEPT ![t] = @ \ {r}]
            /\ UNCHANGED <<next_pk, requests>>
            /\ UNCHANGED notRef

RefNext ==
    \/ \E c \in Clients : ValidateCreate(c)
    \/ \E c \in Clients : ValidateCreateDefault(c)
    \/ \E c \in Clients : ValidateEdit(c)
    \/ \E c \in Clients : Save(c)
    \/ Delete

\* the reference is held by an order of the type other than the order pk
InUse(t, pk, reference) ==
    \E r \in orders[t] : r.pk # pk /\ r.reference = reference

NoSharedReference ==
    \A t \in OrderTypes :
        \A r1, r2 \in orders[t] : r1.reference = r2.reference => r1.pk = r2.pk

\* a save of a request whose reference another order of the type holds
\* changes no table
SaveInUseRejected ==
    \A c \in Clients :
        LET q == requests[c]
            pk == IF q.kind = "create" THEN next_pk[q.type] ELSE q.pk
        IN  (q # NoRequest /\ requests'[c] = NoRequest /\ InUse(q.type, pk, q.reference))
                => UNCHANGED <<orders, next_pk>>

\* C3: under every interleaving of create, edit and delete requests no two
\* purchase orders and no two sales orders hold the same reference, and a
\* create or edit whose reference another order of the type holds is rejected
\* and leaves the orders unchanged.
C3_UniqueReferences == []NoSharedReference /\ [][SaveInUseRejected]_vars

\* a request validated while its reference was free, which another request
\* has taken since, with two orders of that type in the table
C3_Witness ==
    \E c \in Clients :
        /\ requests[c] # NoRequest
        /\ InUse(requests[c].type, requests[c].pk, requests[c].reference)
        /\ Cardinality(orders[requests[c].type]) = 2

\* C4 as stated: for every set of existing orders, the reference returned by
\* get_next_po_number (get_next_so_number) is the reference of no existing
\* purchase order (sales order).
C4_NextNumberUnused ==
    /\ get_next_po_number \notin References(orders["po"])
    /\ get_next_so_number \notin References(orders["so"])

\* the reference ends in a decimal digit
EndsInDigit(reference) ==
    reference # <<>> /\ reference[Len(reference)] \in Digits

\* the run of the loop of get_next_po_number / get_next_so_number on the
\* table of order type t
RunOn(t) ==
    NextNumberRun(LastRow(orders[t]).reference, {LastRow(orders[t]).reference},
                  orders[t], 0)

----------------------------------------------------------------------------
(* InvenTree.helpers.extract_serial_numbers *)

\* a serial number: an integer, or a string that int() does not accept
IntSerial(n) == [int |-> TRUE, n |-> n, s |-> <<>>]
StrSerial(s) == [int |-> FALSE, n |-> 0, s |-> s]

\* int(s) accepts an optional sign followed by decimal digits
Unsigned(s) == IF s # <<>> /\ s[1] \in {"+", "-"} THEN Tail(s) ELSE s

IsInt(s) == Unsigned(s) # <<>> /\ AllDigits(Unsigned(s))

IntOf(s) ==
    IF s[1] = "-" THEN 0 - DigitsToNat(Unsigned(s)) ELSE DigitsToNat(Unsigned(s))

\* str.isnumeric()
isnumeric(s) == s # <<>> /\ AllDigits(s)

\* the position of the first occurrence of a character of cs in s, 0 if none
RECURSIVE Find(_, _)
Find(s, cs) ==
    IF s = <<>> THEN 0
    ELSE IF s[1] \in cs THEN 1
    ELSE LET k == Find(Tail(s), cs) IN IF k = 0 THEN 0 ELSE k + 1

\* str.split(c)
RECURSIVE split(_, _)
split(s, c) ==
    LET k == Find(s, {c})
    IN  IF k = 0 THEN <<s>>
        ELSE <<SubSeq(s, 1, k - 1)>> \o split(SubSeq(s, k + 1, Len(s)), c)

\* re.split("[\s,]+", s): the separators are the maximal runs of whitespace
\* and commas
Separators == Whitespace \cup {","}

RECURSIVE SkipSeparators(_)
SkipSeparators(s) ==
    IF s # <<>> /\ s[1] \in Separators THEN SkipSeparators(Tail(s)) ELSE s

RECURSIVE re_split(_)
re_split(s) ==
    LET k == Find(s, Separators)
    IN  IF k = 0 THEN <<s>>
        ELSE <<SubSeq(s, 1, k - 1)>>
                 \o re_split(SkipSeparators(SubSeq(s, k, Len(s))))

\* the loop over '~' without the increment of next_number
RECURSIVE FillNextSame(_, _)
FillNextSame(serials, next_number) ==
    LET k == Find(serials, {"~"})
    IN  IF k = 0 THEN serials
        ELSE FillNextSame(SubSeq(serials, 1, k - 1) \o IntToStr(next_number)
                              \o SubSeq(serials, k + 1, Len(serials)),
                          next_number)

\* the loop that fills the next serial number in for every '~'
RECURSIVE FillNext(_, _)
FillNext(serials, next_number) ==
    LET k == Find(serials, {"~"})
    IN  IF k = 0 THEN serials
        ELSE FillNext(SubSeq(serials, 1, k - 1) \o IntToStr(next_number)
                          \o SubSeq(serials, k + 1, Len(serials)),
                      next_number + 1)

Contains(xs, x) == \E i \in 1..Len(xs) : xs[i] = x

\* add_sn without the test for a duplicate
AddSnNoCheck(sn, acc) == [acc EXCEPT !.numbers = Append(@, sn)]

\* the helper add_sn, given the serial after its integer conversion; acc holds
\* the lists numbers and errors
add_sn(sn, acc) ==
    IF Contains(acc.numbers, sn)
    THEN [acc EXCEPT !.errors = Append(@, "Duplicate serial")]
    ELSE [acc EXCEPT !.numbers = Append(@, sn)]

\* the integer conversion at the head of add_sn, for a string
Normalise(group) == IF IsInt(group) THEN IntSerial(IntOf(group)) ELSE StrSerial(group)

\* for n in range(a, b): add_sn(n)
RECURSIVE AddRange(_, _, _)
AddRange(a, b, acc) ==
    IF a >= b THEN acc ELSE AddRange(a + 1, b, add_sn(IntSerial(a), acc))

\* for group in groups: add_sn(group)
RECURSIVE AddGroups(_, _)
AddGroups(groups, acc) ==
    IF groups = <<>> THEN acc
    ELSE AddGroups(Tail(groups), add_sn(Normalise(groups[1]), acc))

\* one pass of the loop over the groups: the lists afterwards, and the
\* exception that ends the call, if any
Continue(acc) == [numbers |-> acc.numbers, errors |-> acc.errors, raised |-> "none"]

Raise(acc, exception) ==
    [numbers |-> acc.numbers, errors |-> acc.errors, raised |-> exception]

\* the range taken without its upper end
HyphenGroupExclusive(group, acc) ==
    LET items == split(group, "-")
    IN  IF Len(items) = 2 /\ \A i \in 1..Len(items) : isnumeric(items[i])
        THEN LET a == IntOf(strip(items[1]))
                 b == IntOf(strip(items[2]))
             IN  IF a < b THEN Continue(AddRange(a, b, acc))
                 ELSE Continue([acc EXCEPT !.errors = Append(@, "Invalid group range")])
        ELSE Continue(add_sn(Normalise(group), acc))

HyphenGroup(group, acc) ==
    LET items == split(group, "-")
    IN  IF Len(items) = 2 /\ \A i \in 1..Len(items) : isnumeric(items[i])
        THEN LET a == IntOf(strip(items[1]))
                 b == IntOf(strip(items[2]))
             IN  IF a < b THEN Continue(AddRange(a, b + 1, acc))
                 ELSE Continue([acc EXCEPT !.errors = Append(@, "Invalid group range")])
        ELSE Continue(add_sn(Normalise(group), acc))

\* the '+' branch with "start+number" ending one serial number early
PlusGroupNoExtra(group, expected_quantity, acc) ==
    LET items == split(group, "+")
    IN  IF Len(items) = 2
        THEN IF ~IsInt(items[1]) THEN Raise(acc, "ValueError")
             ELSE LET start == IntOf(items[1])
                  IN  IF items[2] # <<>>
                      THEN IF ~IsInt(items[2]) THEN Raise(acc, "ValueError")
                           ELSE Continue(AddRange(start, start + IntOf(items[2]), acc))
                      ELSE Continue(AddRange(start,
                               start + (expected_quantity - Len(acc.numbers)), acc))
        ELSE Continue([acc EXCEPT !.errors = Append(@, "Invalid group sequence")])

PlusGroup(group, expected_quantity, acc) ==
    LET items == split(group, "+")
    IN  IF Len(items) = 2
        THEN IF ~IsInt(items[1]) THEN Raise(acc, "ValueError")
             ELSE LET start == IntOf(items[1])
                  IN  IF items[2] # <<>>
                      THEN IF ~IsInt(items[2]) THEN Raise(acc, "ValueError")
                           ELSE Continue(AddRange(start, start + IntOf(items[2]) + 1, acc))
                      ELSE Continue(AddRange(start,
                               start + (expected_quantity - Len(acc.numbers)), acc))
        ELSE Continue([acc EXCEPT !.errors = Append(@, "Invalid group sequence")])

\* the test that the user has supplied the correct number of serials
NeverLiteral(groups, expected_quantity) == FALSE

AllLiteral(groups, expected_quantity) == Len(groups) = expected_quantity

ProcessGroup(g, expected_quantity, acc) ==
    LET group == strip(g)
    IN  IF Contains(group, "-") THEN HyphenGroup(group, acc)
        ELSE IF Contains(group, "+") THEN PlusGroup(group, expected_quantity, acc)
        ELSE IF group # <<>> THEN Continue(add_sn(Normalise(group), acc))
        ELSE Raise(acc, "Invalid/no group")

----------------------------------------------------------------------------
(* Calls of extract_serial_numbers on bounded arguments *)

MaxGroups == 3      \* comma-separated pieces of the argument serials
MaxQuantity == 4    \* expected_quantity

\* the pieces the argument serials is put together from
Pieces ==
    { <<"1">>, <<"0", "1">>, <<"A">>, <<>>, <<" ">>, <<"~">>,
      <<"1", " ", "0", "1">>,
      <<"1", "-", "3">>, <<"3", "-", "1">>, <<"1", "-", "2", "-", "3">>,
      <<"A", "-", "1">>,
      <<"2", "+">>, <<"2", "+", "1">>, <<"1", "+", "1", "+", "1">>, <<"A", "+">> }

NextNumbers == {1, 3}

RECURSIVE Join(_)
Join(pieces) ==
    IF Len(pieces) = 0 THEN <<>>
    ELSE IF Len(pieces) = 1 THEN pieces[1]
    ELSE pieces[1] \o <<",">> \o Join(Tail(pieces))

NoResult == [kind |-> "none", errors |-> <<>>]

SnInit ==
    /\ sn_serials \in {Join(ps) : ps \in UNION {[1..k -> Pieces] : k \in 1..MaxGroups}}
    /\ sn_quantity \in 0..MaxQuantity
    /\ sn_next \in NextNumbers
    \* next_number is read by the loop over '~' alone
    /\ Contains(sn_serials, "~") \/ \A n \in NextNumbers : sn_next <= n
    /\ sn_pc = "call"
    /\ sn_groups = <<>>
    /\ sn_done = 0
    /\ sn_numbers = <<>>
    /\ sn_errors = <<>>
    /\ sn_result = NoResult

SnIdle ==
    /\ sn_serials = <<>>
    /\ sn_quantity = 0
    /\ sn_next = 0
    /\ sn_pc = "idle"
    /\ sn_groups = <<>>
    /\ sn_done = 0
    /\ sn_numbers = <<>>
    /\ sn_errors = <<>>
    /\ sn_result = NoResult

\* the call up to the loop over the groups: the strip, the '~', the split, the
\* test for an empty string and the path taken when there are as many groups
\* as serial numbers expected
SerialStart ==
    LET serials == FillNext(strip(sn_serials), sn_next)
        groups == re_split(serials)
        acc == AddGroups(groups, [numbers |-> <<>>, errors |-> <<>>])
    IN  /\ sn_pc = "call"
        /\ IF Len(serials) = 0
           THEN /\ sn_pc' = "done"
                /\ sn_result' = [kind |-> "ValidationError",
                                 errors |-> <<"Empty serial number string">>]
                /\ UNCHANGED <<sn_numbers, sn_errors, sn_done>>
           ELSE IF AllLiteral(groups, sn_quantity)
           THEN /\ sn_pc' = "done"
                /\ sn_done' = Len(groups)
                /\ sn_numbers' = acc.numbers
                /\ sn_errors' = acc.errors
                /\ sn_result' = IF Len(acc.errors) > 0
                                THEN [kind |-> "ValidationError", errors |-> acc.errors]
                                ELSE [kind |-> "list", errors |-> <<>>]
           ELSE /\ sn_pc' = "groups"
                /\ UNCHANGED <<sn_numbers, sn_errors, sn_result, sn_done>>
        /\ sn_groups' = groups
        /\ UNCHANGED <<sn_serials, sn_quantity, sn_next>>
        /\ UNCHANGED notSn

\* one pass of the loop over the groups
SerialGroup ==
    LET out == ProcessGroup(sn_groups[sn_done + 1], sn_quantity,
                            [numbers |-> sn_numbers, errors |-> sn_errors])
    IN  /\ sn_pc = "groups"
        /\ sn_done < Len(sn_groups)
        /\ sn_numbers' = out.numbers
        /\ sn_errors' = out.errors
        /\ IF out.raised = "none"
           THEN /\ sn_done' = sn_done + 1
                /\ UNCHANGED <<sn_pc, sn_result>>
           ELSE /\ sn_pc' = "done"
                /\ sn_result' =
                       IF out.raised = "ValueError"
                       THEN [kind |-> "ValueError", errors |-> <<>>]
                       ELSE [kind |-> "ValidationError", errors |-> <<out.raised>>]
                /\ UNCHANGED sn_done
        /\ UNCHANGED <<sn_serials, sn_quantity, sn_next, sn_groups>>
        /\ UNCHANGED notSn

\* the checks after the loop with the quantity compared first
FinalChecksQuantityFirst(numbers, errors, expected_quantity) ==
    IF expected_quantity # Len(numbers)
    THEN [kind |-> "ValidationError",
          errors |-> <<"Number of unique serial number must match quantity">>]
    ELSE IF Len(errors) > 0
    THEN [kind |-> "ValidationError", errors |-> errors]
    ELSE IF Len(numbers) = 0
    THEN [kind |-> "ValidationError", errors |-> <<"No serial numbers found">>]
    ELSE [kind |-> "list", errors |-> <<>>]

\* the checks after the loop: how the call ends
FinalChecks(numbers, errors, expected_quantity) ==
    IF Len(errors) > 0
    THEN [kind |-> "ValidationError", errors |-> errors]
    ELSE IF Len(numbers) = 0
    THEN [kind |-> "ValidationError", errors |-> <<"No serial numbers found">>]
    ELSE IF expected_quantity # Len(numbers)
    THEN [kind |-> "ValidationError",
          errors |-> <<"Number of unique serial number must match quantity">>]
    ELSE [kind |-> "list", errors |-> <<>>]

SerialFinish ==
    /\ sn_pc = "groups"
    /\ sn_done = Len(sn_groups)
    /\ sn_pc' = "done"
    /\ sn_result' = FinalChecks(sn_numbers, sn_errors, sn_quantity)
    /\ UNCHANGED <<sn_serials, sn_quantity, sn_next, sn_groups, sn_done,
                   sn_numbers, sn_errors>>
    /\ UNCHANGED notSn

SnNext == SerialStart \/ SerialGroup \/ SerialFinish

Distinct(xs) == \A i, j \in 1..Len(xs) : xs[i] = xs[j] => i = j

\* C7: every list returned has exactly expected_quantity elements and no two
\* of them are equal, on the fast path and on the group-expansion path.
C7_ListOfDistinctSerials ==
    sn_result.kind = "list" =>
        /\ Len(sn_numbers) = sn_quantity
        /\ Distinct(sn_numbers)

\* a list returned by the loop over the groups, from fewer groups than serials
C7_Witness ==
    /\ sn_result.kind = "list"
    /\ Len(sn_groups) < sn_quantity
    /\ sn_done = Len(sn_groups)
    /\ sn_quantity >= 3

\* C8 as stated: no numerical string is stored; and once a duplicate has been
\* recorded the call fails and every remaining group is still processed (the
\* call does not end before the loop has reached the last group).
C8_DuplicateRecorded ==
    /\ \A i \in 1..Len(sn_numbers) : ~sn_numbers[i].int => ~IsInt(sn_numbers[i].s)
    /\ (sn_pc = "done" /\ Contains(sn_errors, "Duplicate serial")) =>
            /\ sn_result.kind # "list"
            /\ sn_done >= Len(sn_groups) - 1

\* C9: when there are as many groups as serials expected, every group is one
\* literal token, in input order, with no range or plus expansion; the call
\* returns these tokens, or fails with duplicate errors alone when two are equal.
C9_FastPathLiteral ==
    (sn_pc = "done" /\ strip(sn_serials) # <<>> /\ Len(sn_groups) = sn_quantity) =>
        LET tokens == [i \in 1..Len(sn_groups) |-> Normalise(sn_groups[i])]
        IN  IF Distinct(tokens)
            THEN sn_result.kind = "list" /\ sn_numbers = tokens
            ELSE /\ sn_result.kind = "ValidationError"
                 /\ sn_result.errors = sn_errors
                 /\ \A i \in 1..Len(sn_errors) : sn_errors[i] = "Duplicate serial"
                 /\ \A i \in 1..Len(tokens) : Contains(sn_numbers, tokens[i])

\* "1-3" with quantity 1 gives the single token "1-3"
C9_Witness ==
    /\ sn_pc = "done"
    /\ sn_quantity = 1
    /\ sn_groups = << <<"1", "-", "3">> >>
    /\ sn_result.kind = "list"
    /\ sn_numbers = << StrSerial(<<"1", "-", "3">>) >>

\* what a pass of the loop over a group with a hyphen does
HyphenStep ==
    LET g == sn_groups[sn_done + 1]
        items == split(g, "-")
        Fresh(x) == ~Contains(sn_numbers, x)
    IN  (sn_pc = "groups" /\ sn_done < Len(sn_groups) /\ Contains(g, "-")) =>
            /\ sn_pc' = "groups" /\ sn_done' = sn_done + 1
            /\ IF Len(items) = 2 /\ isnumeric(items[1]) /\ isnumeric(items[2])
               THEN LET a == DigitsToNat(items[1])
                        b == DigitsToNat(items[2])
                        range == [i \in 1..(b - a + 1) |-> IntSerial(a + i - 1)]
                        new == SelectSeq(range, Fresh)
                    IN  IF a < b
                        THEN /\ sn_numbers' = sn_numbers \o new
                             /\ sn_errors' = sn_errors \o
                                    [i \in 1..(Len(range) - Len(new)) |-> "Duplicate serial"]
                        ELSE /\ sn_numbers' = sn_numbers
                             /\ sn_errors' = Append(sn_errors, "Invalid group range")
               ELSE IF Fresh(Normalise(g))
                    THEN /\ sn_numbers' = Append(sn_numbers, Normalise(g))
                         /\ sn_errors' = sn_errors
                    ELSE /\ sn_numbers' = sn_numbers
                         /\ sn_errors' = Append(sn_errors, "Duplicate serial")

\* C10: outside the fast path a group "a-b" with two numeric sides and a < b
\* contributes every integer from a to b inclusive in ascending order, with
\* a >= b it is an error, and a group with more than one '-' or a non-numeric
\* side is added as one literal token and is no range error.
C10_HyphenGroups == [][HyphenStep]_vars

\* "1-3" with quantity 3 gives [1, 2, 3]
C10_Witness ==
    /\ sn_result.kind = "list"
    /\ sn_quantity = 3
    /\ sn_groups = << <<"1", "-", "3">> >>
    /\ sn_numbers = <<IntSerial(1), IntSerial(2), IntSerial(3)>>

\* what a pass of the loop over a group "start+" or "start+length" does
PlusStep ==
    LET g == sn_groups[sn_done + 1]
        items == split(g, "+")
        Fresh(x) == ~Contains(sn_numbers, x)
    IN  (/\ sn_pc = "groups" /\ sn_done < Len(sn_groups)
         /\ ~Contains(g, "-") /\ Len(items) = 2
         /\ isnumeric(items[1])
         /\ items[2] = <<>> \/ isnumeric(items[2])) =>
            LET start == DigitsToNat(items[1])
                left == sn_quantity - Len(sn_numbers)
                count == IF items[2] = <<>>
                         THEN (IF left > 0 THEN left ELSE 0)
                         ELSE DigitsToNat(items[2]) + 1
                range == [i \in 1..count |-> IntSerial(start + i - 1)]
                new == SelectSeq(range, Fresh)
            IN  /\ sn_pc' = "groups" /\ sn_done' = sn_done + 1
                /\ sn_numbers' = sn_numbers \o new
                /\ sn_errors' = sn_errors \o
                       [i \in 1..(Len(range) - Len(new)) |-> "Duplicate serial"]

AllGroupsProcessed ==
    /\ sn_pc = "done"
    /\ strip(sn_serials) # <<>>
    /\ Len(sn_groups) # sn_quantity
    /\ sn_done = Len(sn_groups)

\* C12: after all groups are processed, the call fails with the whole list of
\* recorded errors if there is any; otherwise with 'no serial numbers' if no
\* token was produced; otherwise with a quantity mismatch if the number of
\* tokens differs from expected_quantity; only otherwise is the list returned.
C12_FinalChecksInOrder ==
    AllGroupsProcessed =>
        IF sn_errors # <<>>
        THEN sn_result = [kind |-> "ValidationError", errors |-> sn_errors]
        ELSE IF sn_numbers = <<>>
        THEN sn_result = [kind |-> "ValidationError",
                          errors |-> <<"No serial numbers found">>]
        ELSE IF Len(sn_numbers) # sn_quantity
        THEN sn_result = [kind |-> "ValidationError",
                          errors |-> <<"Number of unique serial number must match quantity">>]
        ELSE sn_result.kind = "list"

\* errors were recorded and the number of tokens differs from the quantity
\* as well: the call fails with the recorded errors
C12_Witness ==
    /\ AllGroupsProcessed
    /\ sn_errors # <<>>
    /\ sn_numbers # <<>>
    /\ Len(sn_numbers) # sn_quantity
    /\ sn_result.errors = sn_errors

\* C13 as stated: the errors of one call are aggregated and the call never
\* fails fast: once a problem has been recorded every group is still
\* processed, and the failure handed to the caller reports every problem
\* recorded.
C13_ErrorsAggregated ==
    (sn_pc = "done" /\ sn_errors # <<>>) =>
        /\ sn_done = Len(sn_groups)
        /\ sn_result = [kind |-> "ValidationError", errors |-> sn_errors]

\* the messages of the validation errors extract_serial_numbers raises
ValidationMessages ==
    {"Empty serial number string", "Invalid/no group", "Invalid group",
     "Invalid group range", "Invalid group sequence", "Duplicate serial",
     "No serial numbers found",
     "Number of unique serial number must match quantity"}

\* C21 as stated: every call either returns a list or fails with a
\* validation error of one of the enumerated kinds; no other kind of failure
\* escapes, in particular not for a '+' group whose start or length is not a
\* number.
C21_OnlyValidationErrors ==
    sn_pc = "done" =>
        \/ sn_result.kind = "list"
        \/ /\ sn_result.kind = "ValidationError"
           /\ \A i \in 1..Len(sn_result.errors) :
                  sn_result.errors[i] \in ValidationMessages

\* s read from left to right, with its occurrences of '~' replaced by the
\* decimal form of n, n + 1, ... in this order
RECURSIVE TildesNumbered(_, _)
TildesNumbered(s, n) ==
    IF s = <<>> THEN <<>>
    ELSE IF s[1] = "~" THEN IntToStr(n) \o TildesNumbered(Tail(s), n + 1)
    ELSE <<s[1]>> \o TildesNumbered(Tail(s), n)

\* C22: the occurrences of '~' are replaced from left to right by
\* next_number, next_number + 1, ... before the spec is split into groups, so
\* k occurrences resolve to k distinct, strictly increasing values starting at
\* next_number, and the groups are a function of the spec and the counter.
C22_TildesFilled ==
    sn_pc \in {"groups", "done"} =>
        /\ sn_groups = re_split(TildesNumbered(strip(sn_serials), sn_next))
        /\ \A i \in 1..Len(sn_groups) : ~Contains(sn_groups[i], "~")

\* "~,~,~" with next_number 3 gives [3, 4, 5]
C22_Witness ==
    /\ sn_result.kind = "list"
    /\ sn_serials = <<"~", ",", "~", ",", "~">>
    /\ sn_next = 3
    /\ sn_numbers = <<IntSerial(3), IntSerial(4), IntSerial(5)>>

\* C29 as stated: no list returned holds the empty string as a token, and a
\* non-empty spec that produces an empty group fails with the invalid-group
\* error whatever the expected quantity.
C29_NoEmptyToken ==
    /\ sn_result.kind = "list" => ~Contains(sn_numbers, StrSerial(<<>>))
    /\ (sn_pc = "done" /\ strip(sn_serials) # <<>> /\ Contains(sn_groups, <<>>)) =>
           /\ sn_result.kind = "ValidationError"
           /\ Contains(sn_result.errors, "Invalid/no group")

----------------------------------------------------------------------------
(* Sales-order allocations and shipments *)

MaxStock == 2       \* the quantity of the stock item that is not serialized

\* the fixture: two sales orders, their line items and shipments
SalesOrders == {1, 2}
Lines == {"L1", "L2", "L3"}
Shipments == {"S1", "S2", "S3"}

LineOrder == [l \in Lines |-> IF l = "L3" THEN 2 ELSE 1]
LinePart == [l \in Lines |-> IF l = "L3" THEN "P2" ELSE "P1"]
ShipmentOrder == [s \in Shipments |-> IF s = "S3" THEN 2 ELSE 1]

\* the field quantity of every line item
LineQuantity == [l \in Lines |-> 1]

Items == DOMAIN stock

\* the outcome of an operation that went through, and of one that did not
Done == [op |-> "none", ok |-> TRUE, processed |-> 0]
Failed(op, processed) == [op |-> op, ok |-> FALSE, processed |-> processed]

RECURSIVE SumQuantity(_)
SumQuantity(rows) ==
    IF rows = <<>> THEN 0 ELSE rows[1].quantity + SumQuantity(Tail(rows))

OfItem(rows, item) == LET On(a) == a.item = item IN SelectSeq(rows, On)
OfShipment(rows, s) == LET In(a) == a.shipment = s IN SelectSeq(rows, In)

\* StockItem.allocation_count(): the quantity of the item that is allocated
allocation_count(rows, item) == SumQuantity(OfItem(rows, item))

\* the check of clean() against over-allocation
OverAllocated(rows, item, quantity) ==
    stock[item].quantity - allocation_count(rows, item) + quantity < quantity

\* clean() finding no error at all
NoCleanErrors(line, shipment, item, quantity) == {}

\* clean() without the comparison of the order of the line and of the shipment
CleanErrorsAnyShipment(line, shipment, item, quantity) ==
    (IF LinePart[line] # stock[item].part THEN {"item"} ELSE {})
    \cup (IF quantity > stock[item].quantity THEN {"quantity"} ELSE {})
    \cup (IF OverAllocated(allocations, item, quantity) THEN {"quantity"} ELSE {})
    \cup (IF quantity <= 0 THEN {"quantity"} ELSE {})
    \cup (IF stock[item].serial /\ quantity # 1 THEN {"quantity"} ELSE {})

\* SalesOrderAllocation.clean(): the errors it collects
CleanErrors(line, shipment, item, quantity) ==
    (IF LinePart[line] # stock[item].part THEN {"item"} ELSE {})
    \cup (IF quantity > stock[item].quantity THEN {"quantity"} ELSE {})
    \cup (IF OverAllocated(allocations, item, quantity) THEN {"quantity"} ELSE {})
    \cup (IF quantity <= 0 THEN {"quantity"} ELSE {})
    \cup (IF stock[item].serial /\ quantity # 1 THEN {"quantity"} ELSE {})
    \cup (IF LineOrder[line] # ShipmentOrder[shipment] THEN {"line", "shipment"} ELSE {})

\* limit_choices_to of the field item: a stock item not yet with a customer
ItemChoices == {i \in Items : ~stock[i].customer}

\* no constraint on the pair of line and stock item
NotUnique(line, item) == TRUE

\* unique_together: a stock item is allocated to a line at most once
UniqueTogether(line, item) ==
    \A k \in 1..Len(allocations) :
        ~(allocations[k].line = line /\ allocations[k].item = item)

LedgerInit ==
    /\ \E q \in 1..MaxStock :
           stock = << [part |-> "P1", quantity |-> q, serial |-> FALSE,
                       customer |-> FALSE, sales_order |-> 0],
                      [part |-> "P2", quantity |-> 1, serial |-> TRUE,
                       customer |-> FALSE, sales_order |-> 0] >>
    /\ shipped = [l \in Lines |-> 0]
    /\ allocations = <<>>
    /\ shipment_date = [s \in Shipments |-> FALSE]
    \* the second order was cancelled before; its line and shipment remain
    /\ so_status = [o \in SalesOrders |-> IF o = 1 THEN "PENDING" ELSE "CANCELLED"]
    /\ last = Done

LedgerIdle ==
    /\ stock = <<>>
    /\ shipped = [l \in Lines |-> 0]
    /\ allocations = <<>>
    /\ shipment_date = [s \in Shipments |-> FALSE]
    /\ so_status = [o \in SalesOrders |-> "PENDING"]
    /\ last = Done

\* the validation of a new SalesOrderAllocation: the choices of the field
\* item, clean() and unique_together
Accepted(line, shipment, item, quantity) ==
    /\ item \in ItemChoices
    /\ CleanErrors(line, shipment, item, quantity) = {}
    /\ UniqueTogether(line, item)

\* the quantities asked for: none, some of an item, more than any item holds
Quantities == 0..(MaxStock + 1)

\* a new SalesOrderAllocation is validated and, when valid, saved
Allocate ==
    /\ \/ \E line \in Lines, shipment \in Shipments, item \in Items,
             quantity \in Quantities :
              /\ Accepted(line, shipment, item, quantity)
              /\ allocations' = Append(allocations,
                                       [line |-> line, shipment |-> shipment,
                                        item |-> item, quantity |-> quantity])
              /\ last' = Done
       \/ /\ ~\A line \in Lines, shipment \in Shipments, item \in Items,
                 quantity \in Quantities :
                  Accepted(line, shipment, item, quantity)
          /\ allocations' = allocations
          /\ last' = Failed("allocate", 0)
    /\ UNCHANGED <<stock, shipped, shipment_date, so_status>>
    /\ UNCHANGED notLedger

\* DELETE of an allocation
Deallocate ==
    \E k \in 1..Len(allocations) :
        /\ allocations' = SubSeq(allocations, 1, k - 1)
                              \o SubSeq(allocations, k + 1, Len(allocations))
        /\ last' = Done
        /\ UNCHANGED <<stock, shipped, shipment_date, so_status>>
        /\ UNCHANGED notLedger

\* StockItem.allocateToCustomer: the item split off for the customer when the
\* quantity is part of the item, the item itself when it is all of it; it
\* fails when the item no longer holds the quantity
allocateToCustomer(db, item, quantity, order) ==
    IF quantity > db.stock[item].quantity
    THEN [db EXCEPT !.ok = FALSE]
    ELSE IF quantity < db.stock[item].quantity
    THEN [db EXCEPT !.stock =
              Append([@ EXCEPT ![item].quantity = @ - quantity],
                     [part |-> db.stock[item].part, quantity |-> quantity,
                      serial |-> db.stock[item].serial, customer |-> TRUE,
                      sales_order |-> order]),
              !.item = Len(db.stock) + 1]
    ELSE [db EXCEPT !.stock[item].customer = TRUE,
                    !.stock[item].sales_order = order, !.item = item]

\* complete_allocation without the update of the shipped quantity of the line
CompleteAllocationNoCount(db, k) ==
    LET a == db.allocations[k]
        out == allocateToCustomer(db, a.item, a.quantity, LineOrder[a.line])
    IN  IF ~out.ok THEN out
        ELSE [out EXCEPT !.allocations[k].item = out.item,
                         !.processed = @ + 1]

\* SalesOrderAllocation.complete_allocation, of the allocation with index k
complete_allocation(db, k) ==
    LET a == db.allocations[k]
        out == allocateToCustomer(db, a.item, a.quantity, LineOrder[a.line])
    IN  IF ~out.ok THEN out
        ELSE [out EXCEPT !.shipped[a.line] = @ + a.quantity,
                         !.allocations[k].item = out.item,
                         !.processed = @ + 1]

\* the loop of complete_shipment over the allocations of the shipment, which
\* the first exception ends
RECURSIVE CompleteAllocations(_, _, _)
CompleteAllocations(db, s, k) ==
    IF ~db.ok \/ k > Len(db.allocations) THEN db
    ELSE IF db.allocations[k].shipment = s
    THEN CompleteAllocations(complete_allocation(db, k), s, k + 1)
    ELSE CompleteAllocations(db, s, k + 1)

\* no transaction: what was written before the exception stays
NotAtomic(before, after) == after

\* @transaction.atomic: an exception rolls back every write of the call
transaction_atomic(before, after) ==
    IF after.ok THEN after
    ELSE [before EXCEPT !.ok = FALSE, !.processed = after.processed]

\* check_can_complete without the test of the shipment date
CanCompleteAgain(s) == Len(OfShipment(allocations, s)) # 0

\* SalesOrderShipment.check_can_complete
check_can_complete(s) ==
    /\ ~shipment_date[s]
    /\ Len(OfShipment(allocations, s)) # 0

\* SalesOrderShipment.complete_shipment
CompleteShipment ==
    \E s \in Shipments :
        LET before == [stock |-> stock, shipped |-> shipped,
                       allocations |-> allocations, ok |-> TRUE,
                       processed |-> 0, item |-> 0]
            after == IF check_can_complete(s)
                     THEN CompleteAllocations(before, s, 1)
                     ELSE [before EXCEPT !.ok = FALSE]
            db == transaction_atomic(before, after)
        IN  /\ stock' = db.stock
            /\ shipped' = db.shipped
            /\ allocations' = db.allocations
            /\ shipment_date' = [shipment_date EXCEPT ![s] = @ \/ db.ok]
            /\ last' = IF db.ok THEN Done
                        ELSE Failed("complete_shipment", db.processed)
            /\ UNCHANGED so_status
            /\ UNCHANGED notLedger

\* SalesOrderLineItem.allocated_quantity
allocated_quantity(l) ==
    LET Of(a) == a.line = l IN SumQuantity(SelectSeq(allocations, Of))

\* SalesOrderLineItem.fulfilled_quantity: the stock items of the order of the
\* line that are of the part of the line
fulfilled_quantity(l) ==
    LET Of(item) == item.sales_order = LineOrder[l] /\ item.part = LinePart[l]
    IN  SumQuantity(SelectSeq(stock, Of))

\* is_fully_allocated asking for more than the quantity of the line
IsOverAllocated(l) ==
    IF so_status[LineOrder[l]] = "SHIPPED"
    THEN fulfilled_quantity(l) > LineQuantity[l]
    ELSE allocated_quantity(l) > LineQuantity[l]

\* SalesOrderLineItem.is_fully_allocated
is_fully_allocated(l) ==
    IF so_status[LineOrder[l]] = "SHIPPED"
    THEN fulfilled_quantity(l) >= LineQuantity[l]
    ELSE allocated_quantity(l) >= LineQuantity[l]

\* SalesOrder.pending_shipment_count and pending_line_count
pending_shipment_count(o) ==
    Cardinality({s \in Shipments : ShipmentOrder[s] = o /\ ~shipment_date[s]})

pending_line_count(o) ==
    Cardinality({l \in Lines : LineOrder[l] = o /\ shipped[l] < LineQuantity[l]})

\* can_complete without the test for incomplete shipments
CanCompleteAnyShipment(o) ==
    /\ Cardinality({l \in Lines : LineOrder[l] = o}) # 0
    /\ so_status[o] = "PENDING"
    /\ pending_line_count(o) = 0

\* SalesOrder.can_complete
can_complete(o) ==
    /\ Cardinality({l \in Lines : LineOrder[l] = o}) # 0
    /\ so_status[o] = "PENDING"
    /\ pending_shipment_count(o) = 0
    /\ pending_line_count(o) = 0

\* SalesOrder.complete_order
CompleteOrder ==
    \E o \in SalesOrders :
        /\ so_status' = IF can_complete(o)
                        THEN [so_status EXCEPT ![o] = "SHIPPED"] ELSE so_status
        /\ last' = IF can_complete(o) THEN Done ELSE Failed("complete_order", 0)
        /\ UNCHANGED <<stock, shipped, allocations, shipment_date>>
        /\ UNCHANGED notLedger

\* can_cancel letting a shipped order through as well
CanCancelShipped(o) == so_status[o] \in {"PENDING", "SHIPPED"}

\* SalesOrder.can_cancel
can_cancel(o) == so_status[o] = "PENDING"

\* SalesOrder.cancel_order: the allocations of every line of the order are deleted
CancelOrder ==
    \E o \in SalesOrders :
        LET Kept(a) == LineOrder[a.line] # o
        IN  /\ so_status' = IF can_cancel(o)
                            THEN [so_status EXCEPT ![o] = "CANCELLED"] ELSE so_status
            /\ allocations' = IF can_cancel(o)
                              THEN SelectSeq(allocations, Kept) ELSE allocations
            /\ last' = IF can_cancel(o) THEN Done ELSE Failed("cancel_order", 0)
            /\ UNCHANGED <<stock, shipped, shipment_date>>
            /\ UNCHANGED notLedger

LedgerNext ==
    Allocate \/ Deallocate \/ CompleteShipment \/ CompleteOrder \/ CancelOrder

\* no shipment has been completed: only allocations were made and deleted
OnlyAllocations == \A s \in Shipments : ~shipment_date[s]

\* C1: after any sequence of allocations made and deleted, the quantities
\* allocated against one stock item, summed over all lines, never exceed the
\* quantity of the item: an allocation of more than the quantity of the item
\* less the quantity already allocated is rejected
C1_NoOverAllocation ==
    OnlyAllocations =>
        \A item \in Items :
            allocation_count(allocations, item) <= stock[item].quantity

\* the step is a call of complete_shipment that failed
FailedShipment == last'.op = "complete_shipment" /\ ~last'.ok

\* C2: complete_shipment is all-or-nothing: when the completion of one
\* allocation of the shipment fails, every stock item, every shipped counter
\* and every allocation is as before the call and the shipment has no
\* shipment date, however many allocations had been processed before
ShipmentRolledBack ==
    FailedShipment =>
        UNCHANGED <<stock, shipped, allocations, shipment_date, so_status>>

C2_ShipmentAllOrNothing == [][ShipmentRolledBack]_vars

\* a shipment failed at an allocation after another one had been processed
C2_Witness ==
    /\ last.op = "complete_shipment"
    /\ ~last.ok
    /\ last.processed >= 1

AllocationsValid ==
    \A k \in 1..Len(allocations) :
        LET a == allocations[k]
        IN  /\ a.quantity > 0
            /\ stock[a.item].part = LinePart[a.line]
            /\ LineOrder[a.line] = ShipmentOrder[a.shipment]

\* a rejected request creates and changes no allocation
RejectedAllocation ==
    (last'.op = "allocate" /\ ~last'.ok) => UNCHANGED allocations

\* C15: an allocation is recorded only if its quantity is greater than zero,
\* the part of the stock item is the part of the line and the order of the
\* line is the order of the shipment; a request that fails one of these is
\* rejected and no allocation is created or changed.
C15_AllocationValidated == []AllocationsValid /\ [][RejectedAllocation]_vars

\* allocations are recorded for both sales orders, and a request has just
\* been rejected with them in place
C15_Witness ==
    /\ \E k \in 1..Len(allocations) : LineOrder[allocations[k].line] = 1
    /\ \E k \in 1..Len(allocations) : LineOrder[allocations[k].line] = 2
    /\ last.op = "allocate" /\ ~last.ok

ShipmentLineQuantity(s, l) ==
    LET Of(a) == a.shipment = s /\ a.line = l
    IN  SumQuantity(SelectSeq(allocations, Of))

\* the step gives shipment s its shipment date
Completes(s) == ~shipment_date[s] /\ shipment_date'[s]

\* what a successful complete_shipment has done to the shipped counters
ShipmentCounted ==
    \A s \in Shipments :
        Completes(s) =>
            /\ \A l \in Lines :
                   shipped'[l] = shipped[l] + ShipmentLineQuantity(s, l)
            /\ \A l \in Lines :
                   ShipmentLineQuantity(s, l) = 0 => shipped'[l] = shipped[l]
            /\ \A t \in Shipments \ {s} : shipment_date'[t] = shipment_date[t]

\* C23: after a successful complete_shipment the shipped counter of each line
\* has increased by exactly the sum of the quantities of the allocations of
\* the shipment on that line, the counters of the lines without an allocation
\* in the shipment are unchanged, and the shipment has a shipment date.
C23_ShippedCounted == [][ShipmentCounted]_vars

\* one shipment alone was completed, with an allocation of one half of the
\* stock item on each of two lines
C23_Witness ==
    /\ shipment_date["S1"] /\ ~shipment_date["S2"] /\ ~shipment_date["S3"]
    /\ shipped["L1"] = 1
    /\ shipped["L2"] = 1
    /\ shipped["L3"] = 0
    /\ Len(stock) = 3

\* a shipment that has a shipment date or no allocation keeps its state, a
\* failed complete_shipment changes nothing, and the shipped counter of a
\* line and the stock change only in a step that gives a shipment holding an
\* allocation its first shipment date
ShipmentOnce ==
    /\ \A s \in Shipments :
           (shipment_date[s] \/ Len(OfShipment(allocations, s)) = 0) =>
               shipment_date'[s] = shipment_date[s]
    /\ (last'.op = "complete_shipment" /\ ~last'.ok) =>
           UNCHANGED <<stock, shipped, shipment_date>>
    /\ \A l \in Lines :
           shipped'[l] # shipped[l] =>
               \E s \in Shipments : Completes(s) /\ ShipmentLineQuantity(s, l) > 0
    /\ stock' # stock => \E s \in Shipments : Completes(s)

\* C24: a shipment is completed at most once: complete_shipment on a shipment
\* that has a shipment date already, or no allocations, fails and changes no
\* stock item, line or shipment; so the quantity of an allocation is added to
\* the shipped counter of its line at most once.
C24_CompletedOnce == [][ShipmentOnce]_vars

\* complete_shipment has just failed while the only shipment that holds
\* allocations is one completed before
C24_Witness ==
    /\ last.op = "complete_shipment" /\ ~last.ok
    /\ shipment_date["S1"] /\ shipped["L1"] >= 1
    /\ Len(OfShipment(allocations, "S1")) = Len(allocations)
    /\ allocations # <<>>

\* the allocations on the lines of order o
OfOrder(rows, o) == LET On(a) == LineOrder[a.line] = o IN SelectSeq(rows, On)

\* an order becomes CANCELLED from PENDING alone, and then loses every
\* allocation of its lines while the other orders keep theirs; a cancel_order
\* that returns False met an order that was not PENDING and changes nothing
CancelChecked ==
    /\ \A o \in SalesOrders :
           (so_status[o] # "CANCELLED" /\ so_status'[o] = "CANCELLED") =>
               /\ so_status[o] = "PENDING"
               /\ OfOrder(allocations', o) = <<>>
               /\ \A p \in SalesOrders \ {o} :
                      /\ OfOrder(allocations', p) = OfOrder(allocations, p)
                      /\ so_status'[p] = so_status[p]
    /\ (last'.op = "cancel_order" /\ ~last'.ok) =>
           /\ \E o \in SalesOrders : so_status[o] # "PENDING"
           /\ UNCHANGED <<so_status, allocations, stock, shipped, shipment_date>>

\* C25: cancel_order succeeds only on an order whose status is PENDING; when
\* it has succeeded the status is CANCELLED and no allocation remains on any
\* line of the order; on an order of any other status it returns False and
\* changes neither the status nor any allocation.
C25_CancelOnlyPending == [][CancelChecked]_vars

\* the first order was cancelled after one of its lines had been shipped, no
\* allocation of its lines is left, and a later cancel_order returned False
C25_Witness ==
    /\ so_status[1] = "CANCELLED"
    /\ shipped["L1"] >= 1
    /\ OfOrder(allocations, 1) = <<>>
    /\ last.op = "cancel_order" /\ ~last.ok

\* an order becomes SHIPPED only from PENDING, with a line, every shipment
\* dated and every line shipped in full; a complete_order that returns False
\* changes nothing; an order that is SHIPPED or CANCELLED keeps its status
CompleteChecked ==
    /\ \A o \in SalesOrders :
           (so_status[o] # "SHIPPED" /\ so_status'[o] = "SHIPPED") =>
               /\ so_status[o] = "PENDING"
               /\ \E l \in Lines : LineOrder[l] = o
               /\ \A s \in Shipments : ShipmentOrder[s] = o => shipment_date[s]
               /\ \A l \in Lines : LineOrder[l] = o => shipped[l] >= LineQuantity[l]
               /\ UNCHANGED <<stock, shipped, allocations, shipment_date>>
    /\ (last'.op = "complete_order" /\ ~last'.ok) =>
           UNCHANGED <<so_status, allocations, stock, shipped, shipment_date>>
    /\ \A o \in SalesOrders :
           so_status[o] \in {"SHIPPED", "CANCELLED"} => so_status'[o] = so_status[o]

----------------------------------------------------------------------------
(* Allocation requests served concurrently *)

\* no allocation validated and waiting to be saved
NoAllocation == [line |-> "L1", shipment |-> "S1", item |-> 0, quantity |-> 0]

NoneInFlight == inflight = [c \in Clients |-> NoAllocation]

\* the first step of a request: the new SalesOrderAllocation is validated
\* against the rows the database holds now
ValidateAllocation(c) ==
    /\ inflight[c] = NoAllocation
    /\ \/ \E line \in Lines, shipment \in Shipments, item \in Items,
             quantity \in Quantities :
              /\ Accepted(line, shipment, item, quantity)
              /\ inflight' = [inflight EXCEPT ![c] =
                                  [line |-> line, shipment |-> shipment,
                                   item |-> item, quantity |-> quantity]]
              /\ last' = Done
       \/ /\ ~\A line \in Lines, shipment \in Shipments, item \in Items,
                 quantity \in Quantities :
                  Accepted(line, shipment, item, quantity)
          /\ inflight' = inflight
          /\ last' = Failed("allocate", 0)
    /\ UNCHANGED <<stock, shipped, allocations, shipment_date, so_status>>
    /\ UNCHANGED notRequests

\* the second step: the row is inserted, unless the database finds that it
\* breaks unique_together
SaveAllocation(c) ==
    LET a == inflight[c]
    IN  /\ a # NoAllocation
        /\ inflight' = [inflight EXCEPT ![c] = NoAllocation]
        /\ IF UniqueTogether(a.line, a.item)
           THEN allocations' = Append(allocations, a) /\ last' = Done
           ELSE allocations' = allocations /\ last' = Failed("save", 0)
        /\ UNCHANGED <<stock, shipped, shipment_date, so_status>>
        /\ UNCHANGED notRequests

RequestsNext == \E c \in Clients : ValidateAllocation(c) \/ SaveAllocation(c)

\* C19 as stated: when allocation requests for one stock item are served
\* concurrently, under every interleaving of their validation and insertion
\* the allocations recorded against the item sum to at most its quantity.
C19_NoStaleOverAllocation ==
    \A item \in Items :
        allocation_count(allocations, item) <= stock[item].quantity

\* C28: in every reachable state there is at most one allocation for a given
\* pair of sales-order line and stock item: allocating the same stock item to
\* the same line a second time never produces a second record.
C28_OneAllocationPerPair ==
    \A i, j \in 1..Len(allocations) :
        (allocations[i].line = allocations[j].line
            /\ allocations[i].item = allocations[j].item) => i = j

\* a second allocation of a stock item to a line passed validation while the
\* first was not yet saved, and its insert has just been refused
C28_Witness ==
    /\ last.op = "save" /\ ~last.ok
    /\ \E k \in 1..Len(allocations) :
           allocations[k].line = "L1" /\ allocations[k].item = 1

----------------------------------------------------------------------------
(* Shipments completed concurrently *)

\* the shipment each client completes
ShipmentOf == [c \in Clients |-> IF c = "c1" THEN "S1" ELSE "S2"]

\* a client outside complete_shipment; written holds, per line, the shipped
\* quantity the transaction has saved and not yet committed
NotCompleting ==
    [pc |-> "idle", k |-> 0, read |-> 0,
     written |-> [l \in Lines |-> [set |-> FALSE, value |-> 0]]]

NoneCompleting == completing = [c \in Clients |-> NotCompleting]

\* the fixture: two stock items of the part of line L1, each allocated to
\* that line in a shipment of its own
ShipmentsInit ==
    /\ \E q1, q2 \in 1..MaxStock :
           /\ stock = << [part |-> "P1", quantity |-> q1, serial |-> FALSE,
                          customer |-> FALSE, sales_order |-> 0],
                         [part |-> "P1", quantity |-> q2, serial |-> FALSE,
                          customer |-> FALSE, sales_order |-> 0] >>
           /\ \E a1 \in 1..q1, a2 \in 1..q2 :
                  allocations =
                      << [line |-> "L1", shipment |-> "S1", item |-> 1, quantity |-> a1],
                         [line |-> "L1", shipment |-> "S2", item |-> 2, quantity |-> a2] >>
    /\ shipped = [l \in Lines |-> 0]
    /\ shipment_date = [s \in Shipments |-> FALSE]
    /\ so_status = [o \in SalesOrders |-> IF o = 1 THEN "PENDING" ELSE "CANCELLED"]
    /\ last = Done

\* the index of the first allocation of shipment s from index k on, 0 if none
NextAllocation(s, k) ==
    LET later == {j \in k..Len(allocations) : allocations[j].shipment = s}
    IN  IF later = {} THEN 0 ELSE CHOOSE j \in later : \A i \in later : j <= i

\* complete_shipment up to the loop: check_can_complete
BeginShipment(c) ==
    /\ completing[c].pc = "idle"
    /\ IF check_can_complete(ShipmentOf[c])
       THEN /\ completing' = [completing EXCEPT ![c] =
                                  [NotCompleting EXCEPT !.pc = "loop", !.k = 1]]
            /\ last' = Done
       ELSE /\ completing' = completing
            /\ last' = Failed("complete_shipment", 0)
    /\ UNCHANGED <<stock, shipped, allocations, shipment_date, so_status>>
    /\ UNCHANGED notShipments

\* complete_allocation reads the line of the allocation: the row as
\* committed, or as this transaction has written it
LoadLine(c) ==
    LET j == NextAllocation(ShipmentOf[c], completing[c].k)
        line == allocations[j].line
        own == completing[c].written[line]
    IN  /\ completing[c].pc = "loop"
        /\ j # 0
        /\ completing' = [completing EXCEPT
                              ![c].pc = "loaded", ![c].k = j,
                              ![c].read = IF own.set THEN own.value ELSE shipped[line]]
        /\ UNCHANGED ledgerVars
        /\ UNCHANGED notShipments

\* complete_allocation saves the line with shipped += quantity; the row is
\* locked by a transaction that has written it until that one commits
SaveLine(c) ==
    LET a == allocations[completing[c].k]
    IN  /\ completing[c].pc = "loaded"
        /\ \A d \in Clients \ {c} : ~completing[d].written[a.line].set
        /\ completing' = [completing EXCEPT
                              ![c].pc = "loop", ![c].k = @ + 1,
                              ![c].written[a.line] =
                                  [set |-> TRUE, value |-> completing[c].read + a.quantity]]
        /\ UNCHANGED ledgerVars
        /\ UNCHANGED notShipments

\* the end of complete_shipment: the shipment date is saved and the
\* transaction commits what it has written, or rolls back when an allocation
\* failed
FinishShipment(c) ==
    LET s == ShipmentOf[c]
        before == [stock |-> stock, shipped |-> shipped,
                   allocations |-> allocations, ok |-> TRUE,
                   processed |-> 0, item |-> 0]
        db == CompleteAllocations(before, s, 1)
        written == completing[c].written
    IN  /\ completing[c].pc = "loop"
        /\ NextAllocation(s, completing[c].k) = 0
        /\ completing' = [completing EXCEPT ![c] = NotCompleting]
        /\ IF db.ok
           THEN /\ stock' = db.stock
                /\ allocations' = db.allocations
                /\ shipped' = [l \in Lines |->
                                   IF written[l].set THEN written[l].value
                                   ELSE shipped[l]]
                /\ shipment_date' = [shipment_date EXCEPT ![s] = TRUE]
                /\ last' = Done
           ELSE /\ UNCHANGED <<stock, allocations, shipped, shipment_date>>
                /\ last' = Failed("complete_shipment", db.processed)
        /\ UNCHANGED so_status
        /\ UNCHANGED notShipments

ShipmentsNext ==
    \E c \in Clients :
        BeginShipment(c) \/ LoadLine(c) \/ SaveLine(c) \/ FinishShipment(c)

\* C30 as stated: when two shipments that each hold an allocation on the same
\* line are completed concurrently, then under every interleaving, once both
\* completions have succeeded, the shipped counter of the line is its value
\* before plus the quantities of both allocations.
C30_NoLostIncrement ==
    (shipment_date["S1"] /\ shipment_date["S2"]) =>
        shipped["L1"] = ShipmentLineQuantity("S1", "L1")
                            + ShipmentLineQuantity("S2", "L1")

----------------------------------------------------------------------------
(* Receiving line items against a purchase order *)

MaxReceive == 2     \* the quantity received in one call
MaxSerials == 2     \* the serial numbers given in one call
MaxReceived == 3    \* the calls for a line stop when it has received this many
MaxItems == 2       \* the calls stop when this many stock items exist

\* the fixture: one purchase order and its line items; the supplier part of
\* the second line has been deleted, which sets the field part to NULL
POLines == {"PL1", "PL2", "PL3"}
POLineQuantity == [l \in POLines |-> IF l = "PL1" THEN 2 ELSE 1]
POLinePart == [l \in POLines |-> l # "PL2"]

\* the arguments of receive_line_item: the line, the quantity (a number or
\* not) and the number of serial numbers in the list serials
NoCall == [op |-> "none", ok |-> TRUE, line |-> "PL1", numeric |-> TRUE,
           quantity |-> 0, serials |-> 0]

Call(op, ok) == [NoCall EXCEPT !.op = op, !.ok = ok]

\* pending_line_items finding no line
NoPendingLineItems(received) == {}

\* PurchaseOrder.pending_line_items
po_pending_line_items(received) ==
    {l \in POLines : POLineQuantity[l] > received[l]}

\* the test of the status at the head of receive_line_item, passed by any status
AnyStatus(status) == TRUE

\* the test of the status at the head of receive_line_item
StatusPlaced(status) == status = "PLACED"

\* the stock items created with the whole quantity even when serialized
NewStockItemsWholeQuantity(line, quantity, serials) ==
    IF POLinePart[line] /\ quantity > 0
    THEN IF serials > 0
         THEN [k \in 1..serials |-> [line |-> line, quantity |-> quantity, serial |-> k]]
         ELSE << [line |-> line, quantity |-> quantity, serial |-> 0] >>
    ELSE <<>>

\* the stock items receive_line_item creates: one per serial number, or one
\* of the quantity received; serial 0 stands for None
NewStockItems(line, quantity, serials) ==
    IF POLinePart[line] /\ quantity > 0
    THEN IF serials > 0
         THEN [k \in 1..serials |-> [line |-> line, quantity |-> 1, serial |-> k]]
         ELSE << [line |-> line, quantity |-> quantity, serial |-> 0] >>
    ELSE <<>>

PoInit ==
    /\ po_status = "PENDING"
    /\ po_received = [l \in POLines |-> 0]
    /\ po_stock = <<>>
    /\ po_last = NoCall

PoIdle ==
    /\ po_status = "PENDING"
    /\ po_received = [l \in POLines |-> 0]
    /\ po_stock = <<>>
    /\ po_last = NoCall

\* PurchaseOrder.place_order
PlaceOrder ==
    /\ po_status' = IF po_status = "PENDING" THEN "PLACED" ELSE po_status
    /\ po_last' = Call("place_order", po_status = "PENDING")
    /\ UNCHANGED <<po_received, po_stock>>
    /\ UNCHANGED notPo

\* PurchaseOrder.complete_order
CompletePurchaseOrder ==
    /\ po_status' = IF po_status = "PLACED" THEN "COMPLETE" ELSE po_status
    /\ po_last' = Call("complete_order", po_status = "PLACED")
    /\ UNCHANGED <<po_received, po_stock>>
    /\ UNCHANGED notPo

\* PurchaseOrder.cancel_order
CancelPurchaseOrder ==
    /\ po_status' = IF po_status \in {"PLACED", "PENDING"} THEN "CANCELLED"
                    ELSE po_status
    /\ po_last' = Call("cancel_order", po_status \in {"PLACED", "PENDING"})
    /\ UNCHANGED <<po_received, po_stock>>
    /\ UNCHANGED notPo

\* PurchaseOrder.receive_line_item
ReceiveLineItem ==
    \E line \in POLines, numeric \in BOOLEAN, q \in (0 - 1)..MaxReceive,
       serials \in 0..MaxSerials :
        LET quantity == IF numeric THEN q ELSE 0
            ok == StatusPlaced(po_status) /\ numeric /\ quantity >= 0
            received == [po_received EXCEPT ![line] = @ + quantity]
        IN  /\ numeric \/ q = 0
            /\ po_received[line] < MaxReceived
            /\ Len(po_stock) < MaxItems
            \* of a call that raises, the quantity alone is kept
            /\ po_last' = IF ok
                          THEN [op |-> "receive_line_item", ok |-> TRUE,
                                line |-> line, numeric |-> TRUE,
                                quantity |-> quantity, serials |-> serials]
                          ELSE [Call("receive_line_item", FALSE)
                                    EXCEPT !.numeric = numeric, !.quantity = quantity]
            /\ IF ok
               THEN /\ po_stock' = po_stock \o NewStockItems(line, quantity, serials)
                    /\ po_received' = received
                    /\ po_status' = IF po_pending_line_items(received) = {}
                                    THEN "COMPLETE" ELSE po_status
               ELSE UNCHANGED <<po_status, po_received, po_stock>>
            /\ UNCHANGED notPo

PoNext == PlaceOrder \/ CompletePurchaseOrder \/ CancelPurchaseOrder \/ ReceiveLineItem

\* what a call of receive_line_item does to the order, or does not
ReceiveChecked ==
    po_last'.op = "receive_line_item" =>
        /\ po_last'.ok <=>
               (po_status = "PLACED" /\ po_last'.numeric /\ po_last'.quantity >= 0)
        /\ ~po_last'.ok => UNCHANGED <<po_stock, po_received, po_status>>

\* C17: line items are received against a purchase order only while its
\* status is PLACED: a call for an order in another status, or with a quantity
\* that is negative or no number, is rejected and leaves the stock items and
\* the received counter of every line unchanged.
C17_ReceiveOnlyPlaced == [][ReceiveChecked]_vars

\* a call was rejected for the status of the order after items had been
\* received
C17_Witness ==
    /\ po_last.op = "receive_line_item" /\ ~po_last.ok
    /\ po_last.numeric /\ po_last.quantity > 0
    /\ po_status \in {"COMPLETE", "CANCELLED"}
    /\ po_stock # <<>>

\* the stock items the step has created
CreatedItems == SubSeq(po_stock', Len(po_stock) + 1, Len(po_stock'))

\* what a call that went through with a quantity above zero has done
Received(l) ==
    /\ po_received' = [po_received EXCEPT ![l] = @ + po_last'.quantity]
    /\ IF po_last'.serials = 0
       THEN CreatedItems = << [line |-> l, quantity |-> po_last'.quantity, serial |-> 0] >>
       ELSE /\ Len(CreatedItems) = po_last'.serials
            /\ \A k \in 1..Len(CreatedItems) :
                   CreatedItems[k] = [line |-> l, quantity |-> 1, serial |-> k]

StatusStep ==
    /\ po_status' # po_status =>
           \/ /\ po_status = "PENDING" /\ po_status' = "PLACED"
              /\ po_last'.op = "place_order"
           \/ /\ po_status = "PLACED" /\ po_status' = "COMPLETE"
              /\ \/ po_last'.op = "complete_order"
                 \/ /\ po_last'.op = "receive_line_item" /\ po_last'.ok
                    /\ \A l \in POLines : po_received'[l] >= POLineQuantity[l]
           \/ /\ po_status \in {"PENDING", "PLACED"} /\ po_status' = "CANCELLED"
              /\ po_last'.op = "cancel_order"
    /\ (po_last'.op = "receive_line_item" /\ po_last'.ok
           /\ \A l \in POLines : po_received'[l] >= POLineQuantity[l])
          => po_status' = "COMPLETE"
    /\ (po_last'.op = "place_order" /\ po_status # "PENDING")
          => UNCHANGED <<po_status, po_received, po_stock>>
    /\ (po_last'.op = "complete_order" /\ po_status # "PLACED")
          => UNCHANGED <<po_status, po_received, po_stock>>
    /\ (po_last'.op = "cancel_order" /\ po_status \notin {"PENDING", "PLACED"})
          => UNCHANGED <<po_status, po_received, po_stock>>
    /\ po_status \in {"COMPLETE", "CANCELLED"}
          => UNCHANGED <<po_status, po_received, po_stock>>

\* C27: the status of a purchase order only ever changes PENDING -> PLACED
\* (place_order), PLACED -> COMPLETE (complete_order, or the end of a receipt
\* after which no line has received < quantity) and PENDING or PLACED ->
\* CANCELLED (cancel_order); each operation called in another status leaves
\* the order unchanged, so COMPLETE and CANCELLED are final and a completed
\* order accepts no further receipt.
C27_StatusTransitions == [][StatusStep]_vars

\* the receipt of the last pending line has completed the order
C27_Witness ==
    /\ po_status = "COMPLETE"
    /\ po_last.op = "receive_line_item" /\ po_last.ok
    /\ \A l \in POLines : po_received[l] >= POLineQuantity[l]

----------------------------------------------------------------------------
(* Specifications *)

InitIncrement == IncInit /\ RefIdle /\ SnIdle /\ LedgerIdle /\ PoIdle /\ NoneInFlight /\ NoneCompleting

SpecIncrement == InitIncrement /\ [][CallIncrement]_vars

InitReferences == RefInit /\ IncIdle /\ SnIdle /\ LedgerIdle /\ PoIdle /\ NoneInFlight /\ NoneCompleting

SpecReferences == InitReferences /\ [][RefNext]_vars

InitSerials == SnInit /\ IncIdle /\ RefIdle /\ LedgerIdle /\ PoIdle /\ NoneInFlight /\ NoneCompleting

Init == LedgerInit /\ IncIdle /\ RefIdle /\ SnIdle /\ PoIdle /\ NoneInFlight /\ NoneCompleting

Next == LedgerNext

Spec == Init /\ [][Next]_vars

InitRequests ==
    LedgerInit /\ IncIdle /\ RefIdle /\ SnIdle /\ PoIdle /\ NoneInFlight
        /\ NoneCompleting

SpecRequests == InitRequests /\ [][RequestsNext]_vars

InitShipments ==
    ShipmentsInit /\ IncIdle /\ RefIdle /\ SnIdle /\ PoIdle /\ NoneInFlight
        /\ NoneCompleting

SpecShipments == InitShipments /\ [][ShipmentsNext]_vars

InitReceive == PoInit /\ IncIdle /\ RefIdle /\ SnIdle /\ LedgerIdle /\ NoneInFlight /\ NoneCompleting

SpecReceive == InitReceive /\ [][PoNext]_vars

SpecSerials == InitSerials /\ [][SnNext]_vars

====
